---------------------------- MODULE Spec2Model ----------------------------
(***************************************************************************)
(* Model of the database-coordinated scripts of the ASE example notebooks: *)
(*   - the surface adsorption study (ads.db): the unguarded adsorbate     *)
(*     loop, the reserve-guarded loop run by several jobs in parallel,    *)
(*     job time-outs, re-runs and the manual removal of empty rows;       *)
(*   - the two genetic-algorithm main scripts (pool GA on gadb.db and the *)
(*     generational FCC-alloy GA on fcc_alloys.db).                       *)
(***************************************************************************)
EXTENDS Integers, Sequences, FiniteSets, TLC

(***************************************************************************)
(* Bounds of the model.                                                    *)
(***************************************************************************)
NumJobs == 2
MaxReruns == 1
PopSize == 2
NToTest == 2
NumGens == 2
NumRepetitions == 2

(***************************************************************************)
(* Surface adsorption study: loop ranges (shortened lists of the script).  *)
(***************************************************************************)
Symbols == <<"Al">>
LayerList == <<1, 2, 3>>
AdsList == <<"C">>

None == 0

Jobs == 1..NumJobs

\* Position p (1-based) of the triple loop
\*   for row in db1.select(): for n in [1, 2, 3]: for ads in 'CNO'
\* as the key-value pairs layers=n, surf=symb, ads=ads.
NumKeys == Len(Symbols) * Len(LayerList) * Len(AdsList)

KeyAt(p) ==
    LET q == p - 1
        ia == (q % Len(AdsList)) + 1
        il == ((q \div Len(AdsList)) % Len(LayerList)) + 1
        is == (q \div (Len(AdsList) * Len(LayerList))) + 1
    IN  [layers |-> LayerList[il], surf |-> Symbols[is], ads |-> AdsList[ia]]

AllKeys == {KeyAt(p) : p \in 1..NumKeys}

VARIABLES
    ads_db,    \* rows of ads.db: [id, layers, surf, ads, natoms]
    next_id,   \* next value of the AUTOINCREMENT row id of ads.db
    phase,     \* "unguarded": first loop running; "guarded": jobs running;
               \* then the steps of the reference calculations
    u_pos,     \* loop position of the unguarded loop
    pc,        \* per job: "reserve", "run", "del", "done"
    pos,       \* per job: loop position of the guarded loop
    rid,       \* per job: the id returned by the last reserve()
    alive,     \* per job: FALSE once the job failed or timed out
    reruns,    \* number of times the script was started again in some job
    seen,      \* per job: key combinations that had a row when the run began
    did,       \* per job: key combinations the current run calculated or wrote
    ncalc,     \* history: per key combination, how often run() was started
    finished,  \* history: key combinations whose guarded iteration completed
    refs_db,   \* rows of refs.db
    mode,      \* "ads", "pool" (gadb.db script) or "gen" (fcc_alloys.db script)
    store,     \* rows of the GA database, in the order they were written
    pop,       \* Population.pop: the current population, best first
    fresh,     \* TRUE when nothing was marked relaxed since pop was derived
    gpc,       \* position of the GA main script
    gi,        \* loop counter i of the main script
    gen,       \* generation counter of the generational script
    parents,   \* gaids of the parents a1, a2 of the candidate being made
    cand,      \* the new candidate a3 while the loop body works on it
    hist,      \* FCC GA: the populations after each pop.update(), oldest first
    traj,      \* all_candidates.traj as the monitoring tool wrote it last
    resumed,   \* TRUE once the main script was interrupted and run again
    left       \* start-up loop of a further run: candidates found unrelaxed

adsVars == <<ads_db, next_id, phase, u_pos, pc, pos, rid, alive, reruns, seen, did,
             ncalc, finished, refs_db>>

gaVars == <<mode, store, pop, fresh, gpc, gi, gen, parents, cand, hist, traj,
            resumed, left>>

vars == <<ads_db, next_id, phase, u_pos, pc, pos, rid, alive, reruns, seen, did,
          ncalc, finished, refs_db, mode, store, pop, fresh, gpc, gi, gen, parents, cand,
          hist, traj, resumed, left>>

(***************************************************************************)
(* ase.db operations used by the scripts.                                  *)
(***************************************************************************)
Row(id, k, natoms) ==
    [id |-> id, layers |-> k.layers, surf |-> k.surf, ads |-> k.ads,
     natoms |-> natoms]

KeyOf(r) == [layers |-> r.layers, surf |-> r.surf, ads |-> r.ads]

\* db.select(layers=n, surf=symb, ads=ads)
select(db, k) == {r \in db : KeyOf(r) = k}

\* number of atoms of fcc111(symb, (1, 1, n)) plus one adsorbate
run_natoms(k) == k.layers + 1

\* db2.reserve(layers=n, surf=symb, ads=ads): checks for a row with the keys;
\* if there is one nothing is written and None is returned, otherwise an
\* empty row with those key-value pairs is written and its id returned.
reserve_unchecked(db, nid, k) ==
    [id |-> nid, db |-> db \cup {Row(nid, k, 0)}]

reserve_only_real(db, nid, k) ==
    IF {r \in select(db, k) : r.natoms > 0} # {}
    THEN [id |-> None, db |-> db]
    ELSE [id |-> nid, db |-> db \cup {Row(nid, k, 0)}]

reserve_real_row(db, nid, k) ==
    IF select(db, k) # {}
    THEN [id |-> None, db |-> db]
    ELSE [id |-> nid, db |-> db \cup {Row(nid, k, run_natoms(k))}]

reserve(db, nid, k) ==
    IF select(db, k) # {}
    THEN [id |-> None, db |-> db]
    ELSE [id |-> nid, db |-> db \cup {Row(nid, k, 0)}]

\* db2.write(atoms, layers=n, surf=symb, ads=ads)
write_replacing(db, nid, k) == {Row(nid, k, run_natoms(k))}

write(db, nid, k) == db \cup {Row(nid, k, run_natoms(k))}

\* del db2[id]
delete_nothing(db, id) == db

delete(db, id) == {r \in db : r.id # id}

\* ase db ads.db natoms=0 --delete
delete_empty(db) == {r \in db : r.natoms # 0}

\* A job that fails or times out runs no handler: the database is untouched.
release_on_failure(db, id) == {r \in db : r.id # id}

on_failure(db, id) == db

Stopped(j) == ~alive[j] \/ pc[j] = "done"

(***************************************************************************)
(* Genetic algorithm: the candidate database (ase.ga.data) as the scripts   *)
(* use it. A row is [gaid, relaxed, raw_score, geom]; every candidate has   *)
(* the row written by add_unrelaxed_candidate and, once relaxed, a second   *)
(* row written by add_relaxed_step (fcc_alloys.db: 241 rows for 120         *)
(* candidates). geom stands for the structure: the relaxed geometry in the  *)
(* pool GA (0 before relaxation), the atoms_string in the FCC-alloy GA.     *)
(***************************************************************************)
Geoms == {0, 1, 2}
Scores == {1, 2}

NoCand == [gaid |-> None, geom |-> 0, raw_score |-> None]

GaRow(gaid, relaxed, raw_score, geom) ==
    [gaid |-> gaid, relaxed |-> relaxed, raw_score |-> raw_score, geom |-> geom]

\* d.add_unrelaxed_candidate(a): a new row, its id becomes the confid
add_unrelaxed_candidate(st, geom) ==
    Append(st, GaRow(Len(st) + 1, 0, None, geom))

\* da.add_unrelaxed_step(a3_mut, desc): a further unrelaxed row of the candidate
add_unrelaxed_step(st, gaid, geom) ==
    Append(st, GaRow(gaid, 0, None, geom))

\* da.add_relaxed_step(a): a new row marked relaxed, carrying the
\* key_value_pairs of a (with the raw_score the script has put there)
add_relaxed_in_place(st, a) ==
    [i \in 1..Len(st) |->
        IF st[i].gaid = a.gaid /\ i = CHOOSE n \in 1..Len(st) : st[n].gaid = a.gaid
        THEN GaRow(a.gaid, 1, a.raw_score, a.geom) ELSE st[i]]

add_relaxed_step(st, a) ==
    Append(st, GaRow(a.gaid, 1, a.raw_score, a.geom))

RelaxedGaids(st) == {st[i].gaid : i \in {n \in 1..Len(st) : st[n].relaxed = 1}}

UnrelaxedGaids(st) ==
    {st[i].gaid : i \in {n \in 1..Len(st) : st[n].relaxed = 0}} \ RelaxedGaids(st)

\* da.get_number_of_unrelaxed_candidates()
no_unrelaxed_candidates(st) == 0

get_number_of_unrelaxed_candidates(st) == Cardinality(UnrelaxedGaids(st))

\* The candidate the start-up loop gets next: the run of the pool script
\* prints "Relaxing starting candidate 2" ... "21", in the order of the ids.
first_unrelaxed(st) ==
    CHOOSE g \in UnrelaxedGaids(st) : \A h \in UnrelaxedGaids(st) : g <= h

\* da.get_an_unrelaxed_candidate(), for the candidate g it picks: the latest
\* unrelaxed row of g
get_an_unrelaxed_candidate(st, g) ==
    LET n == CHOOSE m \in 1..Len(st) :
                 /\ st[m].gaid = g /\ st[m].relaxed = 0
                 /\ \A l \in 1..Len(st) :
                        (st[l].gaid = g /\ st[l].relaxed = 0) => l <= m
    IN  [gaid |-> g, geom |-> st[n].geom, raw_score |-> None]

\* da.get_all_relaxed_candidates()
get_all_candidates(st) == st

get_all_relaxed_candidates(st) == SelectSeq(st, LAMBDA r : r.relaxed = 1)

\* relax(input_atoms, ref_db) of the FCC-alloy script: the heat of formation
\* is a function of the atoms_string alone (several strings share a value).
hof_score(geom) == (geom \div 2) + 1

\* The relaxation of candidate a and the raw_score the script assigns:
\*   pool GA: BFGS on EMT, raw_score = -a.get_potential_energy()
\*   FCC GA : relax(a, ref_db), raw_score = -hof
relax_without_score(a) ==
    IF mode = "pool"
    THEN {[gaid |-> a.gaid, geom |-> g, raw_score |-> None] : g \in Geoms}
    ELSE {[gaid |-> a.gaid, geom |-> a.geom, raw_score |-> None]}

relax(a) ==
    IF mode = "pool"
    THEN {[gaid |-> a.gaid, geom |-> g, raw_score |-> e] : g \in Geoms, e \in Scores}
    ELSE {[gaid |-> a.gaid, geom |-> a.geom, raw_score |-> hof_score(a.geom)]}

(***************************************************************************)
(* Population (ase.ga.population), as the specification describes it: the   *)
(* top population_size relaxed candidates by raw_score, best first, no two  *)
(* of them alike under the comparator.                                      *)
(***************************************************************************)
Abs(x) == IF x < 0 THEN -x ELSE x

\* comparator.looks_like(a, b): the InteratomicDistanceComparator of the pool
\* GA matches geometric descriptors within a tolerance; the FCC-alloy GA
\* passes no comparator and structures are alike when they are equal.
looks_like(a, b) ==
    IF mode = "pool" THEN Abs(a.geom - b.geom) <= 1 ELSE a.geom = b.geom

RECURSIVE sort_by_raw_score(_)
unsorted(seq) == seq

sort_by_raw_score(seq) ==
    IF Len(seq) = 0 THEN <<>>
    ELSE LET rest == sort_by_raw_score(SubSeq(seq, 1, Len(seq) - 1))
             x == seq[Len(seq)]
             n == Cardinality({i \in 1..Len(rest) : rest[i].raw_score >= x.raw_score})
         IN  SubSeq(rest, 1, n) \o <<x>> \o SubSeq(rest, n + 1, Len(rest))

never_full(members) == FALSE

is_full(members) == Len(members) >= PopSize

always_new(members, c) == TRUE

is_new(members, c) == \A i \in 1..Len(members) : ~looks_like(members[i], c)

RECURSIVE fill_population(_, _, _)
fill_population(all_cand, i, members) ==
    IF i > Len(all_cand) \/ is_full(members) THEN members
    ELSE IF is_new(members, all_cand[i])
         THEN fill_population(all_cand, i + 1, Append(members, all_cand[i]))
         ELSE fill_population(all_cand, i + 1, members)

\* Population(data_connection, population_size, comparator) and
\* population.update(): the top-N set derived from the store
top_n(st) ==
    fill_population(sort_by_raw_score(get_all_relaxed_candidates(st)), 1, <<>>)

\* population.get_two_candidates(): two different members
two_of_the_store(members) ==
    {<<store[i], store[j]>> : i, j \in 1..Len(store)} \ {<<store[i], store[i]>> : i \in 1..Len(store)}

two_candidates(members) ==
    {<<members[pr[1]], members[pr[2]]>> :
        pr \in {q \in (1..Len(members)) \X (1..Len(members)) : q[1] # q[2]}}

(***************************************************************************)
(* The unguarded adsorbate loop                 .                        *)
(***************************************************************************)
UnguardedStep ==
    /\ phase = "unguarded"
    /\ u_pos <= NumKeys
    /\ LET k == KeyAt(u_pos) IN
        /\ ads_db' = write(ads_db, next_id, k)
        /\ ncalc' = [ncalc EXCEPT ![k] = @ + 1]
    /\ next_id' = next_id + 1
    /\ u_pos' = u_pos + 1
    /\ UNCHANGED <<phase, pc, pos, rid, alive, reruns, seen, did, finished>>
    /\ UNCHANGED refs_db
    /\ UNCHANGED gaVars

\* The first loop has finished or was cut off; the modified script is
\* started in NumJobs jobs.
StartJobs ==
    /\ phase = "unguarded"
    /\ phase' = "guarded"
    /\ seen' = [j \in Jobs |-> {KeyOf(r) : r \in ads_db}]
    /\ UNCHANGED <<ads_db, next_id, u_pos, pc, pos, rid, alive, reruns, did, ncalc,
                   finished>>
    /\ UNCHANGED refs_db
    /\ UNCHANGED gaVars

(***************************************************************************)
(* The reserve-guarded adsorbate loop, one job.                            *)
(***************************************************************************)
Advance(j) ==
    /\ pos' = [pos EXCEPT ![j] = @ + 1]
    /\ pc' = [pc EXCEPT ![j] = IF pos[j] + 1 > NumKeys THEN "done" ELSE "reserve"]

\* id = db2.reserve(...); if id is not None: atoms = run(symb, a, n, ads)
\* reserve() is one transaction on the database file; when it returns an id
\* the calculation starts at once (pc "run": the calculation is going on).
Reserve(j) ==
    /\ phase = "guarded" /\ alive[j] /\ pc[j] = "reserve"
    /\ LET k == KeyAt(pos[j])
           res == reserve(ads_db, next_id, k)
       IN  /\ ads_db' = res.db
           /\ rid' = [rid EXCEPT ![j] = res.id]
           /\ IF res.id # None
              THEN /\ next_id' = next_id + 1
                   /\ pc' = [pc EXCEPT ![j] = "run"]
                   /\ pos' = pos
                   /\ did' = [did EXCEPT ![j] = @ \cup {k}]
                   /\ ncalc' = [ncalc EXCEPT ![k] = @ + 1]
              ELSE /\ next_id' = next_id
                   /\ Advance(j)
                   /\ UNCHANGED <<did, ncalc>>
    /\ UNCHANGED <<phase, u_pos, alive, reruns, seen, finished>>
    /\ UNCHANGED refs_db
    /\ UNCHANGED gaVars

\* run() returns and db2.write(atoms, layers=n, surf=symb, ads=ads) is done.
Write(j) ==
    /\ phase = "guarded" /\ alive[j] /\ pc[j] = "run"
    /\ ads_db' = write(ads_db, next_id, KeyAt(pos[j]))
    /\ next_id' = next_id + 1
    /\ did' = [did EXCEPT ![j] = @ \cup {KeyAt(pos[j])}]
    /\ pc' = [pc EXCEPT ![j] = "del"]
    /\ UNCHANGED <<phase, u_pos, pos, rid, alive, reruns, seen, ncalc, finished>>
    /\ UNCHANGED refs_db
    /\ UNCHANGED gaVars

Del(j) ==
    /\ phase = "guarded" /\ alive[j] /\ pc[j] = "del"
    /\ ads_db' = delete(ads_db, rid[j])
    /\ finished' = finished \cup {KeyAt(pos[j])}
    /\ Advance(j)
    /\ UNCHANGED <<next_id, phase, u_pos, rid, alive, reruns, seen, did, ncalc>>
    /\ UNCHANGED refs_db
    /\ UNCHANGED gaVars

\* The job fails or times out in the body of "if id is not None": during the
\* calculation (pc "run") or between db2.write and del db2[id] (pc "del").
Fail(j) ==
    /\ phase = "guarded" /\ alive[j] /\ pc[j] \in {"run", "del"}
    /\ alive' = [alive EXCEPT ![j] = FALSE]
    /\ ads_db' = on_failure(ads_db, rid[j])
    /\ UNCHANGED <<next_id, phase, u_pos, pc, pos, rid, reruns, seen, did, ncalc,
                   finished>>
    /\ UNCHANGED refs_db
    /\ UNCHANGED gaVars

\* The script is run again in job j.
Rerun(j) ==
    /\ phase = "guarded" /\ Stopped(j)
    /\ reruns < MaxReruns
    /\ reruns' = reruns + 1
    /\ alive' = [alive EXCEPT ![j] = TRUE]
    /\ pc' = [pc EXCEPT ![j] = "reserve"]
    /\ pos' = [pos EXCEPT ![j] = 1]
    /\ rid' = [rid EXCEPT ![j] = None]
    /\ seen' = [seen EXCEPT ![j] = {KeyOf(r) : r \in ads_db}]
    /\ did' = [did EXCEPT ![j] = {}]
    /\ UNCHANGED <<ads_db, next_id, phase, u_pos, ncalc, finished>>
    /\ UNCHANGED refs_db
    /\ UNCHANGED gaVars

\* "Delete them, fix the problem and run the script again": the empty rows
\* are removed by hand once the jobs have stopped.
DeleteEmpty ==
    /\ phase = "guarded"
    /\ \A j \in Jobs : Stopped(j)
    /\ ads_db' = delete_empty(ads_db)
    /\ ads_db' # ads_db
    /\ UNCHANGED <<next_id, phase, u_pos, pc, pos, rid, alive, reruns, seen, did,
                   ncalc, finished>>
    /\ UNCHANGED refs_db
    /\ UNCHANGED gaVars

InitAds ==
    /\ ads_db = {}
    /\ next_id = 1
    /\ phase = "unguarded"
    /\ u_pos = 1
    /\ pc = [j \in Jobs |-> "reserve"]
    /\ pos = [j \in Jobs |-> 1]
    /\ rid = [j \in Jobs |-> None]
    /\ alive = [j \in Jobs |-> TRUE]
    /\ reruns = 0
    /\ seen = [j \in Jobs |-> {}]
    /\ did = [j \in Jobs |-> {}]
    /\ ncalc = [k \in AllKeys |-> 0]
    /\ finished = {}
    /\ refs_db = {}
    /\ mode = "ads"
    /\ store = <<>>
    /\ pop = <<>>
    /\ fresh = TRUE
    /\ gpc = "none"
    /\ gi = 0
    /\ gen = 0
    /\ parents = {}
    /\ cand = NoCand
    /\ hist = <<>>
    /\ traj = <<>>
    /\ resumed = FALSE
    /\ left = {}

JobStep ==
    \E j \in Jobs : Reserve(j) \/ Write(j) \/ Del(j) \/ Fail(j) \/ Rerun(j)

NextAds == UnguardedStep \/ StartJobs \/ JobStep

NextAdsClean == NextAds \/ DeleteEmpty

\* Parallel jobs, time-outs and re-runs on one ads.db.
SpecAds == InitAds /\ [][NextAds]_vars

\* The same with the manual removal of the empty rows between runs.
SpecAdsClean == InitAds /\ [][NextAdsClean]_vars

(***************************************************************************)
(* The GA main scripts.                                                    *)
(***************************************************************************)
\* while da.get_number_of_unrelaxed_candidates() > 0: relax one of them, set
\* its raw_score and mark it relaxed (both scripts).
RelaxStarting ==
    /\ gpc = "start"
    /\ get_number_of_unrelaxed_candidates(store) > 0
    /\ \E a \in relax(get_an_unrelaxed_candidate(store, first_unrelaxed(store))) :
         store' = add_relaxed_step(store, a)
    /\ fresh' = FALSE
    /\ UNCHANGED <<mode, pop, gpc, gi, gen, parents, cand>>
    /\ UNCHANGED <<hist, traj, resumed, left>>
    /\ UNCHANGED adsVars

\* Pool GA: population = Population(data_connection=da, ...)
PoolConstruct ==
    /\ mode = "pool" /\ gpc = "start"
    /\ get_number_of_unrelaxed_candidates(store) = 0
    /\ pop' = top_n(store)
    /\ fresh' = TRUE
    /\ gpc' = "loop"
    /\ gi' = 0
    /\ left' = {}
    /\ UNCHANGED <<mode, store, gen, parents, cand>>
    /\ UNCHANGED <<hist, traj, resumed>>
    /\ UNCHANGED adsVars

\* "if a3 is None: continue": the loop goes on to its next iteration exactly
\* when the pairing operator returned None.
never_continue(a3_is_none) == FALSE

continue_on_none(a3_is_none) == a3_is_none

\* for i in range(n_to_test): a1, a2 = population.get_two_candidates();
\* a3, desc = pairing.get_new_individual([a1, a2]); with a child,
\* da.add_unrelaxed_candidate(a3, description=desc)
PoolPair ==
    /\ mode = "pool" /\ gpc = "loop" /\ gi < NToTest
    /\ \E pr \in two_candidates(pop) :
         \E a3_is_none \in BOOLEAN :
              IF a3_is_none
              THEN /\ gpc' = "a3_none"
                   /\ UNCHANGED <<store, cand, gi, parents>>
              ELSE /\ parents' = {pr[1].gaid, pr[2].gaid}
                   /\ store' = add_unrelaxed_candidate(store, 0)
                   /\ cand' = [gaid |-> Len(store) + 1, geom |-> 0, raw_score |-> None]
                   /\ gpc' = "mutate"
                   /\ gi' = gi
    /\ UNCHANGED <<mode, pop, fresh, gen>>
    /\ UNCHANGED <<hist, traj, resumed, left>>
    /\ UNCHANGED adsVars

\* The pairing returned None: "if a3 is None: continue". Without the
\* continue the script would go on to da.add_unrelaxed_candidate(a3, ...).
PoolNone ==
    /\ mode = "pool" /\ gpc = "a3_none"
    /\ IF continue_on_none(TRUE)
       THEN /\ gi' = gi + 1
            /\ gpc' = "loop"
            /\ UNCHANGED <<store, cand>>
       ELSE /\ store' = add_unrelaxed_candidate(store, 0)
            /\ cand' = [gaid |-> Len(store) + 1, geom |-> 0, raw_score |-> None]
            /\ gpc' = "mutate"
            /\ gi' = gi
    /\ UNCHANGED <<mode, pop, fresh, gen, parents>>
    /\ UNCHANGED <<hist, traj, resumed, left>>
    /\ UNCHANGED adsVars

\* get_two_candidates() has no two candidates to return: the script stops.
NoParents ==
    /\ \/ mode = "pool" /\ gpc = "loop" /\ gi < NToTest
       \/ mode = "gen" /\ gpc = "child"
    /\ two_candidates(pop) = {}
    /\ gpc' = "error"
    /\ UNCHANGED <<mode, store, pop, fresh, gi, gen, parents, cand>>
    /\ UNCHANGED <<hist, traj, resumed, left>>
    /\ UNCHANGED adsVars

PoolLoopEnd ==
    /\ mode = "pool" /\ gpc = "loop" /\ gi = NToTest
    /\ gpc' = "done"
    /\ UNCHANGED <<mode, store, pop, fresh, gi, gen, parents, cand>>
    /\ UNCHANGED <<hist, traj, resumed, left>>
    /\ UNCHANGED adsVars

\* mutations.get_new_individual([a3]) when it succeeds: another structure of
\* the same candidate (unrelaxed structures: 0 as made by the pairing, 1 as
\* changed by a mutation).
mutated(a3) == [a3 EXCEPT !.geom = 1]

\* "if a3_mut is not None: ...; a3 = a3_mut": the structure the script goes
\* on with after the mutation branch
keep_child(a3, a3_mut) == a3

a3_after_mutation(a3, a3_mut) == IF a3_mut # NoCand THEN a3_mut ELSE a3

\* if random() < mutation_probability: a3_mut, desc = mutations....
\*     if a3_mut is not None: da.add_unrelaxed_step(a3_mut, desc); a3 = a3_mut
PoolMutate ==
    /\ mode = "pool" /\ gpc = "mutate"
    /\ \E m \in {"not attempted", "failed", "mutated"} :
         LET a3_mut == IF m = "mutated" THEN mutated(cand) ELSE NoCand
         IN  /\ store' = IF a3_mut # NoCand
                         THEN add_unrelaxed_step(store, a3_mut.gaid, a3_mut.geom)
                         ELSE store
             /\ cand' = a3_after_mutation(cand, a3_mut)
    /\ gpc' = "relax"
    /\ UNCHANGED <<mode, pop, fresh, gi, gen, parents>>
    /\ UNCHANGED <<hist, traj, resumed, left>>
    /\ UNCHANGED adsVars

\* Relax the new candidate, set raw_score, da.add_relaxed_step(a3)
PoolRelax ==
    /\ mode = "pool" /\ gpc = "relax"
    /\ \E a \in relax(cand) :
         /\ cand' = a
         /\ store' = add_relaxed_step(store, a)
    /\ fresh' = FALSE
    /\ gpc' = "update"
    /\ UNCHANGED <<mode, pop, gi, gen, parents>>
    /\ UNCHANGED <<hist, traj, resumed, left>>
    /\ UNCHANGED adsVars

\* population.update()
PoolUpdate ==
    /\ mode = "pool" /\ gpc = "update"
    /\ pop' = top_n(store)
    /\ fresh' = TRUE
    /\ gi' = gi + 1
    /\ gpc' = "loop"
    /\ parents' = {}
    /\ cand' = NoCand
    /\ UNCHANGED <<mode, store, gen>>
    /\ UNCHANGED <<hist, traj, resumed, left>>
    /\ UNCHANGED adsVars

\* FCC GA: pop.update() after the starting population is relaxed
GenFirstUpdate ==
    /\ mode = "gen" /\ gpc = "start"
    /\ get_number_of_unrelaxed_candidates(store) = 0
    /\ pop' = top_n(store)
    /\ fresh' = TRUE
    /\ gpc' = "gen_top"
    /\ gen' = 0
    /\ hist' = Append(hist, pop')
    /\ UNCHANGED <<mode, store, gi, parents, cand>>
    /\ UNCHANGED <<traj, resumed, left>>
    /\ UNCHANGED adsVars

\* cc = GenerationRepetitionConvergence(pop, number_of_generations);
\* cc.converged(): the population has been the same over the last
\* NumRepetitions generations
converged(h) ==
    /\ Len(h) >= NumRepetitions
    /\ \A i \in (Len(h) - NumRepetitions + 1)..Len(h) : h[i] = h[Len(h)]

\* if cc.converged(): print('converged'); break
break_always(c) == "converged"

after_convergence_check(c) == IF c THEN "converged" ELSE "child"

\* for x in range(n): the loop is left when x has run through 0..n-1
range_never_done(i, n) == FALSE

range_done(i, n) == i = n

\* for _ in range(num_gens): if cc.converged(): break
GenTop ==
    /\ mode = "gen" /\ gpc = "gen_top"
    /\ IF range_done(gen, NumGens)
       THEN gpc' = "done" /\ gi' = gi
       ELSE /\ gpc' = after_convergence_check(converged(hist))
            /\ gi' = IF gpc' = "child" THEN 0 ELSE gi
    /\ UNCHANGED <<mode, store, pop, fresh, gen, parents, cand>>
    /\ UNCHANGED <<hist, traj, resumed, left>>
    /\ UNCHANGED adsVars

\* a1, a2 = pop.get_two_candidates(); a3, desc = op.get_new_individual([a1, a2])
\* db.add_unrelaxed_candidate(a3, description=desc)
GenChild ==
    /\ mode = "gen" /\ gpc = "child"
    /\ \E pr \in two_candidates(pop) :
         parents' = {pr[1].gaid, pr[2].gaid}
    /\ \E g \in Geoms :
         /\ store' = add_unrelaxed_candidate(store, g)
         /\ cand' = [gaid |-> Len(store) + 1, geom |-> g, raw_score |-> None]
    /\ gpc' = "grelax"
    /\ UNCHANGED <<mode, pop, fresh, gi, gen>>
    /\ UNCHANGED <<hist, traj, resumed, left>>
    /\ UNCHANGED adsVars

\* The population object during a generation: the body of the inner loop
\* has no pop.update(), db.add_relaxed_step(a3) writes to the database only.
updated_at_once(p, st) == top_n(st)

pop_in_generation(p, st) == p

\* relax(a3, ref_db); db.add_relaxed_step(a3); end of the inner loop body
GenRelax ==
    /\ mode = "gen" /\ gpc = "grelax"
    /\ \E a \in relax(cand) : store' = add_relaxed_step(store, a)
    /\ pop' = pop_in_generation(pop, store')
    /\ fresh' = FALSE
    /\ gi' = gi + 1
    /\ gpc' = IF range_done(gi + 1, PopSize) THEN "gupdate" ELSE "child"
    /\ parents' = {}
    /\ cand' = NoCand
    /\ UNCHANGED <<mode, gen>>
    /\ UNCHANGED <<hist, traj, resumed, left>>
    /\ UNCHANGED adsVars

\* pop.update() after the innermost loop; the population is printed
GenUpdate ==
    /\ mode = "gen" /\ gpc = "gupdate"
    /\ pop' = top_n(store)
    /\ fresh' = TRUE
    /\ gen' = gen + 1
    /\ gpc' = "gen_top"
    /\ hist' = Append(hist, pop')
    /\ UNCHANGED <<mode, store, gi, parents, cand>>
    /\ UNCHANGED <<traj, resumed, left>>
    /\ UNCHANGED adsVars

\* The state the initialisation scripts leave: population_size unrelaxed
\* starting candidates in the database. In the FCC-alloy script the
\* Population object exists (empty) before the starting candidates are relaxed.
InitGA ==
    /\ mode \in {"pool", "gen"}
    /\ \E f \in [1..PopSize -> Geoms] :
         /\ mode = "pool" => \A i \in 1..PopSize : f[i] = 0
         /\ store = [i \in 1..PopSize |-> GaRow(i, 0, None, f[i])]
    /\ pop = <<>>
    /\ fresh = TRUE
    /\ gpc = "start"
    /\ gi = 0
    /\ gen = 0
    /\ parents = {}
    /\ cand = NoCand
    /\ hist = <<>>
    /\ traj = <<>>
    /\ resumed = FALSE
    /\ left = {}
    /\ ads_db = {}
    /\ next_id = 1
    /\ phase = "none"
    /\ u_pos = 1
    /\ pc = [j \in Jobs |-> "done"]
    /\ pos = [j \in Jobs |-> 1]
    /\ rid = [j \in Jobs |-> None]
    /\ alive = [j \in Jobs |-> FALSE]
    /\ reruns = 0
    /\ seen = [j \in Jobs |-> {}]
    /\ did = [j \in Jobs |-> {}]
    /\ ncalc = [k \in AllKeys |-> 0]
    /\ finished = {}
    /\ refs_db = {}

NextGA ==
    \/ RelaxStarting \/ PoolConstruct \/ PoolPair \/ PoolNone \/ NoParents \/ PoolLoopEnd
    \/ PoolMutate \/ PoolRelax \/ PoolUpdate
    \/ GenFirstUpdate \/ GenTop \/ GenChild \/ GenRelax \/ GenUpdate

\* The two GA main scripts, each on its own database.
SpecGA == InitGA /\ [][NextGA]_vars

(***************************************************************************)
(* The start-up loop on its own, with get_an_unrelaxed_candidate() free to  *)
(* return any of the unrelaxed candidates.                                  *)
(***************************************************************************)
\* The candidates da.get_an_unrelaxed_candidate() may return
any_candidate(st) == {st[i].gaid : i \in 1..Len(st)}

retrievable(st) == UnrelaxedGaids(st)

RelaxAnyStarting ==
    /\ gpc = "start"
    /\ get_number_of_unrelaxed_candidates(store) > 0
    /\ \E g \in retrievable(store) :
         \E a \in relax(get_an_unrelaxed_candidate(store, g)) :
            store' = add_relaxed_step(store, a)
    /\ fresh' = FALSE
    /\ UNCHANGED <<mode, pop, gpc, gi, gen, parents, cand>>
    /\ UNCHANGED <<hist, traj, resumed, left>>
    /\ UNCHANGED adsVars

NextStart == RelaxAnyStarting \/ PoolConstruct \/ GenFirstUpdate

\* The script is a sequential program that keeps running: a step that can
\* be taken is taken.
SpecStart == InitGA /\ [][NextStart]_vars /\ WF_vars(NextStart)

(***************************************************************************)
(* The pool GA main script run again on the same gadb.db: the process is    *)
(* interrupted somewhere (or has finished) and a new process starts the     *)
(* script from its first line. Only the database is kept.                   *)
(***************************************************************************)
RunAgain ==
    /\ mode = "pool" /\ ~resumed
    /\ gpc \in {"start", "loop", "a3_none", "mutate", "relax", "update", "done"}
    /\ resumed' = TRUE
    /\ left' = UnrelaxedGaids(store)
    /\ gpc' = "start"
    /\ gi' = 0
    /\ pop' = <<>>
    /\ fresh' = TRUE
    /\ parents' = {}
    /\ cand' = NoCand
    /\ UNCHANGED <<mode, store, gen, hist, traj>>
    /\ UNCHANGED adsVars

\* Candidates added by the main script (the starting candidates have the
\* ids 1..population_size).
NewGaids == {store[i].gaid : i \in 1..Len(store)} \ (1..PopSize)

\* With repeated runs the database grows without bound; the runs are
\* followed until n_to_test candidates have been proposed in all.
PoolPairAgain == Cardinality(NewGaids) < NToTest /\ PoolPair

InitPool == InitGA /\ mode = "pool"

NextRerun ==
    \/ RelaxStarting \/ PoolConstruct \/ PoolPairAgain \/ PoolNone \/ NoParents \/ PoolLoopEnd
    \/ PoolMutate \/ PoolRelax \/ PoolUpdate \/ RunAgain

SpecRerun == InitPool /\ [][NextRerun]_vars

(***************************************************************************)
(* Monitoring: ase/ga/tools/get_all_candidates run in the same folder while *)
(* the pool GA main script is running.                                      *)
(***************************************************************************)
\* write('all_candidates.traj', da.get_all_relaxed_candidates())
Monitor ==
    /\ mode = "pool"
    /\ traj' = get_all_relaxed_candidates(store)
    /\ traj' # traj
    /\ UNCHANGED <<mode, store, pop, fresh, gpc, gi, gen, parents, cand>>
    /\ UNCHANGED <<hist, resumed, left>>
    /\ UNCHANGED adsVars

NextMonitor ==
    \/ RelaxStarting \/ PoolConstruct \/ PoolPair \/ PoolNone \/ NoParents \/ PoolLoopEnd
    \/ PoolMutate \/ PoolRelax \/ PoolUpdate \/ Monitor

SpecMonitor == InitPool /\ [][NextMonitor]_vars

(***************************************************************************)
(* Reference calculations: the clean slabs and the isolated atoms are added *)
(* to ads.db and then moved to refs.db with the ase db tool.                *)
(***************************************************************************)
NumClean == Len(Symbols) * Len(LayerList)

\* Position p of "for row in db1.select(): for n in [1, 2, 3]", ads='clean'
CleanKeyAt(p) ==
    LET q == p - 1
        il == (q % Len(LayerList)) + 1
        is == (q \div Len(LayerList)) + 1
    IN  [layers |-> LayerList[il], surf |-> Symbols[is], ads |-> "clean"]

\* db2.write(a) for a = Atoms(ads): one atom, no key-value pairs
AtomRow(id) == [id |-> id, layers |-> None, surf |-> "", ads |-> "", natoms |-> 1]

\* fcc111 slabs are periodic in two directions; Atoms(ads) and the empty row
\* of reserve() have no periodicity.
pbc(r) == IF r.natoms = 0 \/ r.surf = "" THEN "FFF" ELSE "TTF"

\* db2.write(atoms, id=id, layers=n, surf=symb, ads='clean'): the row with
\* that id is replaced; a clean slab of n layers has n atoms
write_id(db, id, k) == {r \in db : r.id # id} \cup {Row(id, k, k.layers)}

\* ase db ads.db <selection>
select_ads(db, a) == {r \in db : r.ads = a}

select_pbc(db, p) == {r \in db : pbc(r) = p}

\* ase db ads.db <selection> --insert-into refs.db: the selected rows are
\* written to the other file in the order of their ids and get its next ids
RECURSIVE insert_into(_, _)
insert_into(dest, rows) ==
    IF rows = {} THEN dest
    ELSE LET r == CHOOSE x \in rows : \A y \in rows : x.id <= y.id
         IN  insert_into(dest \cup {[r EXCEPT !.id = Cardinality(dest) + 1]},
                         rows \ {r})

\* ase db ads.db <selection> --delete --yes
keep_rows(db, rows) == db

delete_rows(db, rows) == db \ rows

AdvanceClean(j) ==
    /\ pos' = [pos EXCEPT ![j] = @ + 1]
    /\ pc' = [pc EXCEPT ![j] = IF pos[j] + 1 > NumClean THEN "done" ELSE "reserve"]

\* id = db2.reserve(layers=n, surf=symb, ads='clean'); if id is not None: run
ReserveClean(j) ==
    /\ phase = "clean" /\ pc[j] = "reserve"
    /\ LET res == reserve(ads_db, next_id, CleanKeyAt(pos[j]))
       IN  /\ ads_db' = res.db
           /\ rid' = [rid EXCEPT ![j] = res.id]
           /\ IF res.id # None
              THEN /\ next_id' = next_id + 1
                   /\ pc' = [pc EXCEPT ![j] = "run"]
                   /\ pos' = pos
              ELSE /\ next_id' = next_id
                   /\ AdvanceClean(j)
    /\ UNCHANGED <<phase, u_pos, alive, reruns, seen, did, ncalc, finished, refs_db>>
    /\ UNCHANGED gaVars

WriteClean(j) ==
    /\ phase = "clean" /\ pc[j] = "run"
    /\ ads_db' = write_id(ads_db, rid[j], CleanKeyAt(pos[j]))
    /\ AdvanceClean(j)
    /\ UNCHANGED <<next_id, phase, u_pos, rid, alive, reruns, seen, did, ncalc,
                   finished, refs_db>>
    /\ UNCHANGED gaVars

\* for ads in 'CNO': a = Atoms(ads); ...; db2.write(a)
AtomsStep ==
    /\ phase \in {"clean", "atoms"}
    /\ \A j \in Jobs : pc[j] = "done"
    /\ u_pos <= Len(AdsList)
    /\ phase' = "atoms"
    /\ ads_db' = ads_db \cup {AtomRow(next_id)}
    /\ next_id' = next_id + 1
    /\ u_pos' = u_pos + 1
    /\ UNCHANGED <<pc, pos, rid, alive, reruns, seen, did, ncalc, finished, refs_db>>
    /\ UNCHANGED gaVars

\* ! ase db ads.db ads=clean --insert-into refs.db
InsertClean ==
    /\ phase = "atoms" /\ u_pos > Len(AdsList)
    /\ refs_db' = insert_into(refs_db, select_ads(ads_db, "clean"))
    /\ phase' = "clean inserted"
    /\ UNCHANGED <<ads_db, next_id, u_pos, pc, pos, rid, alive, reruns, seen, did,
                   ncalc, finished>>
    /\ UNCHANGED gaVars

\* ! ase db ads.db ads=clean --delete --yes
DeleteClean ==
    /\ phase = "clean inserted"
    /\ ads_db' = delete_rows(ads_db, select_ads(ads_db, "clean"))
    /\ phase' = "clean deleted"
    /\ UNCHANGED <<next_id, u_pos, pc, pos, rid, alive, reruns, seen, did, ncalc,
                   finished, refs_db>>
    /\ UNCHANGED gaVars

\* ! ase db ads.db pbc=FFF --insert-into refs.db
InsertAtoms ==
    /\ phase = "clean deleted"
    /\ refs_db' = insert_into(refs_db, select_pbc(ads_db, "FFF"))
    /\ phase' = "atoms inserted"
    /\ UNCHANGED <<ads_db, next_id, u_pos, pc, pos, rid, alive, reruns, seen, did,
                   ncalc, finished>>
    /\ UNCHANGED gaVars

\* ! ase db ads.db pbc=FFF --delete --yes
DeleteAtoms ==
    /\ phase = "atoms inserted"
    /\ ads_db' = delete_rows(ads_db, select_pbc(ads_db, "FFF"))
    /\ phase' = "moved"
    /\ UNCHANGED <<next_id, u_pos, pc, pos, rid, alive, reruns, seen, did, ncalc,
                   finished, refs_db>>
    /\ UNCHANGED gaVars

\* ads.db as the adsorption study leaves it: one result row for every
\* combination; the ids depend on the runs (deleted rows leave gaps).
InitRefs ==
    /\ \E f \in [1..NumKeys -> 1..(NumKeys + 1)] :
         /\ \A p, q \in 1..NumKeys : p # q => f[p] # f[q]
         /\ ads_db = {Row(f[p], KeyAt(p), run_natoms(KeyAt(p))) : p \in 1..NumKeys}
    /\ next_id = NumKeys + 2
    /\ phase = "clean"
    /\ u_pos = 1
    /\ pc = [j \in Jobs |-> "reserve"]
    /\ pos = [j \in Jobs |-> 1]
    /\ rid = [j \in Jobs |-> None]
    /\ alive = [j \in Jobs |-> TRUE]
    /\ reruns = 0
    /\ seen = [j \in Jobs |-> {}]
    /\ did = [j \in Jobs |-> {}]
    /\ ncalc = [k \in AllKeys |-> 1]
    /\ finished = {}
    /\ refs_db = {}
    /\ mode = "ads"
    /\ store = <<>>
    /\ pop = <<>>
    /\ fresh = TRUE
    /\ gpc = "none"
    /\ gi = 0
    /\ gen = 0
    /\ parents = {}
    /\ cand = NoCand
    /\ hist = <<>>
    /\ traj = <<>>
    /\ resumed = FALSE
    /\ left = {}

CleanStep == \E j \in Jobs : ReserveClean(j) \/ WriteClean(j)

NextRefs ==
    \/ CleanStep \/ AtomsStep
    \/ InsertClean \/ DeleteClean \/ InsertAtoms \/ DeleteAtoms

\* The reference script (its clean-slab loop in NumJobs jobs) and the four
\* ase db commands.
SpecRefs == InitRefs /\ [][NextRefs]_vars

Init == InitAds

Next == NextAdsClean

Spec == Init /\ [][Next]_vars

(***************************************************************************)
(* Properties of the reservation protocol.                                 *)
(***************************************************************************)
Failed(j) == ~alive[j] /\ pc[j] = "run"

Placeholder(j) == Row(rid[j], KeyAt(pos[j]), 0)

\* C1: with any number of jobs running the reserve-guarded loop in parallel
\* on one ads.db (and after the unguarded loop), no calculation is done
\* twice: run() is started at most once for every key combination.
C1_NoCalculationTwice == \A k \in AllKeys : ncalc[k] <= 1

\* Two jobs are calculating at the same time, and the one further on in the
\* loop has passed over the combination the other one reserved.
C1_Witness ==
    \E j1, j2 \in Jobs :
        /\ j1 # j2 /\ alive[j1] /\ alive[j2]
        /\ pc[j1] = "run" /\ pc[j2] = "run"
        /\ pos[j2] > pos[j1]
        /\ KeyAt(pos[j1]) \notin did[j2]

\* C2: a run of the guarded script skips every key combination that had a
\* row in ads.db when the run began (a result of the unguarded loop, a result
\* or an empty row of an earlier run): the run neither calculates it nor
\* writes a row for it.
C2_RerunSkipsExisting == \A j \in Jobs : seen[j] \cap did[j] = {}

\* A re-run has finished its loop; when it began, ads.db held a combination
\* with only the empty row of a failed job (still the only row) and another
\* combination with a result row, and it calculated something else.
C2_Witness ==
    \E j \in Jobs :
        /\ reruns > 0 /\ pc[j] = "done" /\ alive[j]
        /\ did[j] # {}
        /\ \E k \in seen[j] : \A r \in select(ads_db, k) : r.natoms = 0
        /\ \E k \in seen[j] : \E r \in select(ads_db, k) : r.natoms > 0

\* C3 as claimed: once a job has failed after reserve() returned an id and
\* before the result row was written, the key combination has no row left
\* (the placeholder was removed) and can be reserved again.
C3_ReleasedOnFailure ==
    \A j \in Jobs : Failed(j) => select(ads_db, KeyAt(pos[j])) = {}

\* C3 amended: a failing job does not release its reservation. The empty row
\* is still there after the failure, it disappears only when the empty rows
\* are deleted by hand (natoms=0 --delete) with all jobs stopped, and while
\* it is there no job starts the calculation of that combination.
C3_PlaceholderStays ==
    [][\A j \in Jobs :
        /\ (alive[j] /\ pc[j] = "run" /\ ~alive'[j])
              => Placeholder(j) \in ads_db'
        /\ (Failed(j) /\ Placeholder(j) \in ads_db /\ Placeholder(j) \notin ads_db')
              => /\ ads_db' = {r \in ads_db : r.natoms # 0}
                 /\ \A i \in Jobs : Stopped(i)
        /\ (Failed(j) /\ Placeholder(j) \in ads_db)
              => ncalc'[KeyAt(pos[j])] = ncalc[KeyAt(pos[j])]
      ]_vars

\* A job failed during its calculation, its empty row is still in ads.db and
\* another job has run through the whole loop since.
C3_Witness ==
    \E j, i \in Jobs :
        /\ Failed(j) /\ Placeholder(j) \in ads_db
        /\ i # j /\ alive[i] /\ pc[i] = "done"
        /\ KeyAt(pos[j]) \notin did[i]

\* C4: reserve(keys) has exactly two outcomes. If a row with the key-value
\* pairs exists, it returns None, the job goes on to the next combination
\* without calculating and ads.db is unchanged; otherwise ads.db gains exactly
\* one row, empty (natoms = 0), with those key-value pairs and a fresh id,
\* and that id is returned.
C4_ReserveOutcomes ==
    [][\A j \in Jobs :
        (alive[j] /\ pc[j] = "reserve" /\ (pc'[j] # pc[j] \/ pos'[j] # pos[j]))
        => LET k == KeyAt(pos[j]) IN
           IF \E r \in ads_db : r.layers = k.layers /\ r.surf = k.surf /\ r.ads = k.ads
           THEN /\ rid'[j] = None
                /\ ads_db' = ads_db
                /\ ncalc' = ncalc
                /\ pos'[j] = pos[j] + 1
           ELSE /\ rid'[j] # None
                /\ rid'[j] \notin {r.id : r \in ads_db}
                /\ ads_db' = ads_db \cup
                      {[id |-> rid'[j], layers |-> k.layers, surf |-> k.surf,
                        ads |-> k.ads, natoms |-> 0]}
                /\ pc'[j] = "run" /\ pos'[j] = pos[j]
      ]_vars

\* Both outcomes have happened: one job holds the id of the empty row it
\* wrote, another job got None for a combination and moved on.
C4_Witness ==
    \E j1, j2 \in Jobs :
        /\ pc[j1] = "run" /\ rid[j1] # None /\ Placeholder(j1) \in ads_db
        /\ j2 # j1 /\ pc[j2] = "reserve" /\ pos[j2] > 1 /\ rid[j2] = None

\* C5: after an iteration of the guarded loop in which reserve() returned an
\* id has completed, ads.db holds exactly one row with those keys and it is
\* the real (non-empty) row.
C5_OneRealRow ==
    \A k \in finished :
        /\ Cardinality(select(ads_db, k)) = 1
        /\ \A r \in select(ads_db, k) : r.natoms > 0

\* A reserved iteration has completed while another job is between its
\* db2.write and its del db2[id] (two rows for its combination).
C5_Witness ==
    /\ finished # {}
    /\ \E j \in Jobs : pc[j] = "del" /\ Cardinality(select(ads_db, KeyAt(pos[j]))) = 2

(***************************************************************************)
(* Properties of the GA store and population.                              *)
(***************************************************************************)
StoreRows == {store[i] : i \in 1..Len(store)}

Members == {pop[i] : i \in 1..Len(pop)}

RelaxedRows == {r \in StoreRows : r.relaxed = 1}

\* C6: in both GA scripts a candidate's fitness is defined only after
\* relaxation and unrelaxed candidates are never compared: every row marked
\* relaxed carries a raw_score, no unrelaxed row has one, and every member of
\* the population is a relaxed row of the store with a raw_score.
C6_FitnessAfterRelaxation ==
    /\ \A r \in StoreRows : (r.relaxed = 1) <=> (r.raw_score # None)
    /\ \A m \in Members : m \in RelaxedRows /\ m.raw_score \in Scores

\* A new candidate is in the store unrelaxed, waiting for its relaxation,
\* while the population is full.
C6_Witness ==
    /\ gpc \in {"relax", "grelax"}
    /\ Len(pop) = PopSize
    /\ cand.gaid \in UnrelaxedGaids(store)

\* C7: the candidate store is append-only: every step of the GA scripts
\* leaves the rows written so far as they are and only adds rows at the end.
C7_StoreAppendOnly ==
    [][/\ Len(store') >= Len(store)
       /\ SubSeq(store', 1, Len(store)) = store]_vars

\* The pool GA has finished; one candidate went through add_unrelaxed_candidate,
\* add_unrelaxed_step and add_relaxed_step and has its three rows.
C7_Witness ==
    /\ mode = "pool" /\ gpc = "done"
    /\ \E g \in RelaxedGaids(store) :
         Cardinality({i \in 1..Len(store) : store[i].gaid = g}) = 3

\* C8: after construction and after every population.update() the population
\* holds at most population_size candidates.
C8_PopulationBounded == Len(pop) <= PopSize

\* The store holds more relaxed candidates than population_size, the
\* population was just derived from it and is full.
C8_Witness ==
    /\ fresh /\ gpc \in {"loop", "gen_top"}
    /\ Cardinality(RelaxedRows) > PopSize
    /\ Len(pop) = PopSize

\* C9: after every population.update() the members are listed in
\* non-increasing raw_score order, and no relaxed candidate outside the
\* population has a strictly higher raw_score than a member unless it is a
\* duplicate (under the comparator) of a member.
C9_TopN ==
    fresh =>
        /\ \A i \in 1..Len(pop) : \A j \in 1..Len(pop) :
               i < j => pop[i].raw_score >= pop[j].raw_score
        /\ \A c \in RelaxedRows \ Members :
               (\E m \in Members : c.raw_score > m.raw_score)
                   => \E d \in Members : looks_like(d, c)

\* After an update of the FCC-alloy GA the population is full, a relaxed
\* candidate that is no duplicate of any member is left out by its rank, and
\* a duplicate of the best member is left out although it beats the last one.
C9_Witness ==
    /\ fresh /\ mode = "gen" /\ gen > 0 /\ Len(pop) = PopSize
    /\ \E c \in RelaxedRows \ Members : \A m \in Members : ~looks_like(m, c)
    /\ \E c \in RelaxedRows \ Members :
         /\ looks_like(pop[1], c)
         /\ c.raw_score > pop[Len(pop)].raw_score

\* C10: after every population.update() no two members of the population are
\* considered identical by the comparator of the Population.
C10_NoDuplicates ==
    \A i \in 1..Len(pop) : \A j \in 1..Len(pop) :
        i # j => ~looks_like(pop[i], pop[j])

\* Pool GA after an update in the main loop: two members, and a relaxed
\* candidate outside the population that looks like both of them.
C10_Witness ==
    /\ fresh /\ mode = "pool" /\ gi > 0 /\ Len(pop) >= 2
    /\ \E c \in RelaxedRows \ Members :
         looks_like(pop[1], c) /\ looks_like(pop[2], c)

(***************************************************************************)
(* Properties of the GA main scripts.                                      *)
(***************************************************************************)
RelaxedRowsOf(g) == {i \in 1..Len(store) : store[i].gaid = g /\ store[i].relaxed = 1}

\* C11: the start-up loop terminates whichever unrelaxed candidate each
\* retrieval returns: every iteration marks one candidate relaxed and the
\* unrelaxed count goes down by one (from a positive value); the loop is left
\* eventually, and from then on the count is 0 and every starting candidate
\* has exactly one relaxed row.
C11_StartLoopTerminates ==
    /\ [][(gpc = "start" /\ store' # store)
            => /\ get_number_of_unrelaxed_candidates(store) > 0
               /\ get_number_of_unrelaxed_candidates(store')
                    = get_number_of_unrelaxed_candidates(store) - 1]_vars
    /\ [](gpc # "start"
            => /\ get_number_of_unrelaxed_candidates(store) = 0
               /\ \A g \in 1..PopSize : Cardinality(RelaxedRowsOf(g)) = 1)
    /\ <>(gpc # "start")

\* The loop has been left and the candidate relaxed first was the last of
\* the starting candidates, not the one with the lowest id.
C11_Witness ==
    /\ gpc # "start"
    /\ Len(store) = 2 * PopSize
    /\ store[PopSize + 1].gaid = PopSize

\* C12: when the "for i in range(n_to_test)" loop of the pool GA has
\* finished, exactly n_to_test new candidates have been added to the store
\* and all of them are marked relaxed.
C12_AllTestedAdded ==
    (mode = "pool" /\ gpc = "done")
        => /\ Cardinality(NewGaids) = NToTest
           /\ NewGaids \subseteq RelaxedGaids(store)

PopGaids == {pop[i].gaid : i \in 1..Len(pop)}

\* C13: in the generational GA the population changes only after a whole
\* generation: no step of the inner "for i in range(population_size)" loop
\* changes it, and the two parents of every offspring are members of that
\* population, the one the generation began with.
C13_UpdateAfterGeneration ==
    [][(mode = "gen" /\ gpc \in {"child", "grelax"})
        => /\ pop' = pop
           /\ (gpc = "child" /\ gpc' = "grelax")
                 => /\ Cardinality(parents') = 2
                    /\ parents' \subseteq PopGaids]_vars

\* The second offspring of a generation has got its parents from the
\* population while the first offspring, already relaxed, would change the
\* population if it were updated now.
C13_Witness ==
    /\ mode = "gen" /\ gpc = "grelax" /\ gi > 0
    /\ top_n(store) # pop
    /\ parents \subseteq PopGaids

\* The population has been identical over the last NumRepetitions
\* generations (the populations after the last NumRepetitions updates).
IdenticalGenerations ==
    /\ Len(hist) >= NumRepetitions
    /\ \A k \in 0..(NumRepetitions - 1) : hist[Len(hist) - k] = pop

C15_ResumeWithoutDuplicates ==
    [][/\ Len(store') >= Len(store) /\ SubSeq(store', 1, Len(store)) = store
       /\ \A g \in RelaxedGaids(store') : Cardinality(RelaxedRowsOf(g))' = 1
       /\ (resumed /\ gpc = "start" /\ store' # store)
             => \E g \in left \cap UnrelaxedGaids(store) :
                  /\ UnrelaxedGaids(store') = UnrelaxedGaids(store) \ {g}
                  /\ RelaxedGaids(store') = RelaxedGaids(store) \cup {g}
       /\ (resumed /\ gpc = "start" /\ gpc' # "start")
             => /\ UnrelaxedGaids(store) = {}
                /\ left \subseteq RelaxedGaids(store)
                /\ store' = store
                /\ gpc' = "loop" /\ gi' = 0
      ]_vars

\* The first run was interrupted in its main loop between
\* da.add_unrelaxed_step and the relaxation; the start-up loop of the second
\* run has relaxed the mutated candidate left behind and nothing else.
C15_Witness ==
    /\ resumed /\ gpc = "start"
    /\ UnrelaxedGaids(store) = {}
    /\ \E g \in left :
         /\ g > PopSize
         /\ Cardinality({i \in 1..Len(store) : store[i].gaid = g}) = 3
         /\ RelaxedRowsOf(g) = {Len(store)}

TrajRows == {traj[i] : i \in 1..Len(traj)}

\* C16: the monitoring step may run at any moment while the main script
\* runs: every candidate it writes to all_candidates.traj is marked relaxed
\* and has a raw_score, and every candidate of an earlier read is among the
\* candidates of a later read.
C16_MonitorWhileRunning ==
    [][traj' # traj
        => /\ \A i \in 1..Len(traj') :
                 traj'[i].relaxed = 1 /\ traj'[i].raw_score \in Scores
           /\ TrajRows \subseteq TrajRows'
           /\ Len(traj') > Len(traj)]_vars

\* all_candidates.traj was written after the main loop had relaxed a new
\* candidate; since then the main script has relaxed a further candidate and
\* has not yet updated the population.
C16_Witness ==
    /\ Len(traj) > PopSize
    /\ Len(get_all_relaxed_candidates(store)) > Len(traj)
    /\ gpc = "update"

\* C17: the parents the scripts get from get_two_candidates() are members
\* of the population as it is at the call, and so relaxed and scored
\* candidates of the database; no other candidate becomes a parent.
C17_ParentsFromPopulation ==
    [][(parents' # parents /\ parents' # {})
        => \A g \in parents' :
             /\ \E i \in 1..Len(pop) :
                   /\ pop[i].gaid = g
                   /\ pop[i].relaxed = 1 /\ pop[i].raw_score \in Scores
             /\ g \in RelaxedGaids(store)]_vars

\* A child has been made from two members of the population while the
\* database holds a relaxed candidate that is not in the population and an
\* unrelaxed one (the child itself).
C17_Witness ==
    /\ gpc \in {"mutate", "grelax"}
    /\ Cardinality(parents) = 2 /\ parents \subseteq PopGaids
    /\ RelaxedGaids(store) \ PopGaids # {}
    /\ UnrelaxedGaids(store) # {}

(***************************************************************************)
(* Properties of the adsorption study's loops and reference rows.          *)
(***************************************************************************)
\* C18: started on an empty ads.db, the unguarded adsorbate loop has, when
\* it has run through, written exactly one row for every combination of
\* surface, number of layers and adsorbate: as many rows as the product of
\* the three loop ranges (7 * 3 * 3 = 63 with the lists of the script).
C18_OneRowPerCombination ==
    (phase = "unguarded" /\ u_pos > NumKeys)
        => /\ Cardinality(ads_db) = Len(Symbols) * Len(LayerList) * Len(AdsList)
           /\ \A k \in AllKeys :
                 /\ Cardinality(select(ads_db, k)) = 1
                 /\ \A r \in select(ads_db, k) : r.natoms = run_natoms(k)
           /\ \A r \in ads_db : KeyOf(r) \in AllKeys

\* The unguarded loop has run through all combinations.
C18_Witness ==
    /\ phase = "unguarded" /\ u_pos = NumKeys + 1
    /\ \A k \in AllKeys : ncalc[k] = 1

\* What a row holds apart from its id
Content(r) == [layers |-> r.layers, surf |-> r.surf, ads |-> r.ads, natoms |-> r.natoms]

AdsorptionRows == {r \in ads_db : r.ads \in {AdsList[i] : i \in 1..Len(AdsList)}}

\* C19: the reference steps add one row per clean slab and one per isolated
\* atom to ads.db (21 + 3 = 24 with the lists of the script), and
\* --insert-into refs.db followed by --delete with the same selection moves
\* them: at the end refs.db holds exactly those rows, ads.db exactly the
\* adsorption rows it had before, and no row is in both files or lost.
C19_ReferencesMoved ==
    /\ (phase = "atoms" /\ u_pos > Len(AdsList))
          => /\ Cardinality(ads_db \ AdsorptionRows) = NumClean + Len(AdsList)
             /\ Cardinality(select_ads(ads_db, "clean")) = NumClean
             /\ Cardinality(select_pbc(ads_db, "FFF")) = Len(AdsList)
             /\ \A r \in ads_db : r.natoms > 0
    /\ phase = "moved"
          => /\ Cardinality(refs_db) = NumClean + Len(AdsList)
             /\ {Content(r) : r \in refs_db} =
                   {Content(Row(0, CleanKeyAt(p), CleanKeyAt(p).layers)) : p \in 1..NumClean}
                     \cup {Content(AtomRow(0))}
             /\ {r.id : r \in refs_db} = 1..(NumClean + Len(AdsList))
             /\ Cardinality(ads_db) = NumKeys
             /\ ads_db = AdsorptionRows
             /\ \A k \in AllKeys : \E r \in ads_db : KeyOf(r) = k /\ r.natoms = run_natoms(k)
             /\ {Content(r) : r \in ads_db} \cap {Content(r) : r \in refs_db} = {}
    /\ AdsorptionRows = {r \in ads_db : KeyOf(r) \in AllKeys /\ r.natoms = run_natoms(KeyOf(r))}
    /\ Cardinality(AdsorptionRows) = NumKeys

\* The four commands have been run after the clean-slab loop was run by
\* two jobs, one of which found the last slab reserved by the other.
C19_Witness ==
    /\ phase = "moved"
    /\ refs_db # {}
    /\ \E j1, j2 \in Jobs : j1 # j2 /\ rid[j1] # None /\ rid[j2] = None

\* Steps the generational run loop can still take, at most: two per
\* offspring, one for the check at the top and one for pop.update().
StepsLeft ==
    LET per_gen == 2 * PopSize + 2
        later == (NumGens - gen - 1) * per_gen + 1
    IN  CASE gpc = "gen_top" -> (NumGens - gen) * per_gen + 1
          [] gpc = "child"   -> later + 1 + 2 * (PopSize - gi)
          [] gpc = "grelax"  -> later + 2 * (PopSize - gi)
          [] gpc = "gupdate" -> later + 1
          [] OTHER           -> 0

\* C20: the generational run loop always terminates. Every step of it
\* lowers the number of steps it can still take, which is never negative;
\* it does at most num_gens generations of exactly population_size inner
\* iterations each, so that at most num_gens * population_size candidates
\* are added; and it is left before num_gens generations only by the
\* convergence check at the top of a generation.
C20_RunLoopTerminates ==
    [][(mode = "gen" /\ gpc \in {"gen_top", "child", "grelax", "gupdate"})
        => /\ StepsLeft' < StepsLeft /\ StepsLeft' >= 0
           /\ gen' <= NumGens /\ gi' <= PopSize
           /\ Cardinality(NewGaids)' <= NumGens * PopSize
           /\ gpc' = "gen_top" => Cardinality(NewGaids)' = PopSize * gen'
           /\ gpc' = "done" => (gpc = "gen_top" /\ gen = NumGens)
           /\ gpc' = "converged" => (gpc = "gen_top" /\ gen < NumGens)
      ]_vars

\* All num_gens generations were done without the convergence check
\* stopping the loop: num_gens * population_size candidates were added.
C20_Witness ==
    /\ mode = "gen" /\ gpc = "done" /\ gen = NumGens
    /\ Cardinality(NewGaids) = NumGens * PopSize


\* C21: when the pairing operator returns None in the pool GA main loop the
\* iteration is skipped. Neither the step on which the pairing returns None
\* nor the step that follows it changes the store or the population:
\* nothing is added, nothing is relaxed, population.update() is not called
\* (the population stays up to date with the store as it was), and the
\* loop is at the top of its next iteration.
C21_FailedPairingSkipped ==
    [][(mode = "pool" /\ (gpc = "a3_none" \/ gpc' = "a3_none"))
        => /\ store' = store /\ pop' = pop /\ fresh' = fresh
           /\ RelaxedRows' = RelaxedRows
           /\ cand' = NoCand /\ parents' = {}
           /\ gpc' = "a3_none" => (gpc = "loop" /\ gi' = gi)
           /\ gpc = "a3_none" => (gpc' = "loop" /\ gi' = gi + 1)]_vars

\* Every one of the n_to_test iterations was skipped: the loop has ended
\* with the store and the population it started with.
C21_Witness ==
    /\ mode = "pool" /\ gpc = "done" /\ gi = NToTest
    /\ NewGaids = {}
    /\ Len(store) = 2 * PopSize
    /\ pop = top_n(store)


RowsOf(g) == {i \in 1..Len(store) : store[i].gaid = g}

\* C22: in the pool GA main loop every iteration whose pairing succeeds
\* ends with exactly one add_relaxed_step. The mutation branch adds no
\* relaxed row and either leaves the store and the child as they are (no
\* mutation attempted, or it returned None) or records the mutated structure
\* as an unrelaxed step and goes on with it; the relaxation that follows
\* relaxes the structure recorded last for the candidate (the mutated one
\* if there is one, else the child) and adds one relaxed row; and when
\* population.update() ends the iteration the candidate has exactly one
\* relaxed row, the last row of the store.
C22_OneRelaxationPerIteration ==
    [][mode = "pool"
        => /\ gpc = "mutate"
                => /\ gpc' = "relax"
                   /\ cand.geom = 0
                   /\ RelaxedRowsOf(cand.gaid)' = {}
                   /\ \/ store' = store /\ cand' = cand
                      \/ /\ store' = Append(store, GaRow(cand.gaid, 0, None, 1))
                         /\ cand' = [cand EXCEPT !.geom = 1]
           /\ gpc = "relax"
                => /\ gpc' = "update"
                   /\ cand = get_an_unrelaxed_candidate(store, cand.gaid)
                   /\ cand.geom = IF Cardinality(RowsOf(cand.gaid)) = 2 THEN 1 ELSE 0
                   /\ RelaxedRowsOf(cand.gaid) = {}
                   /\ Len(store') = Len(store) + 1
                   /\ RelaxedRowsOf(cand.gaid)' = {Len(store')}
           /\ gpc = "update"
                => /\ gpc' = "loop" /\ gi' = gi + 1
                   /\ store' = store
                   /\ RelaxedRowsOf(cand.gaid) = {Len(store)}
                   /\ Cardinality(RowsOf(cand.gaid)) \in {2, 3}]_vars

\* Both cases in one run: an earlier iteration relaxed its unmutated child
\* (two rows), the current one has recorded a mutated structure and relaxed
\* it (three rows, the unrelaxed step right before the relaxed row).
C22_Witness ==
    /\ mode = "pool" /\ gpc = "update"
    /\ Cardinality(RowsOf(cand.gaid)) = 3
    /\ store[Len(store) - 1] = GaRow(cand.gaid, 0, None, 1)
    /\ store[Len(store)].relaxed = 1
    /\ \E g \in NewGaids \ {cand.gaid} :
         /\ Cardinality(RowsOf(g)) = 2
         /\ Cardinality(RelaxedRowsOf(g)) = 1

=============================================================================
